---- MODULE Spec2Model ----
(***************************************************************************)
(* A model of image_flasher.py: main() starts an optional TFTP server,     *)
(* do_flash_image() drives a U-Boot console over a serial line, sending    *)
(* commands and waiting for the "=>" prompt, and flashes an image chunk by *)
(* chunk.                                                                  *)
(*                                                                         *)
(* Byte strings (the image, a chunk, the staging file) are kept as         *)
(*   [len |-> n, bytes |-> f]                                              *)
(* where f lists the value of the bytes at the offsets in DOMAIN f and     *)
(* every offset of 0..n-1 that f does not list holds the byte 0.  This     *)
(* keeps the source's sizes (20 MiB chunks, 512-byte blocks) as they are.  *)
(* Text on the serial line is a sequence of one-character strings.         *)
(***************************************************************************)
EXTENDS Integers, Sequences, FiniteSets, TLC

VARIABLES
    pc,                   \* position of the main thread in main()/do_flash_image()
    args,                 \* parsed command line: [tftp, serverip, ipaddr]
    image,                \* the (decompressed) content of args.image, or NoFile
    use_lzma,             \* args.image ends with ".xz"
    image_size,           \* do_flash_image: image_size
    fpos,                 \* read position of f_img / f_lzma
    data,                 \* do_flash_image: data (the current chunk)
    chunk_size_in_blocks, \* do_flash_image: chunk_size_in_blocks
    buffer_is_00_only,    \* do_flash_image: buffer_is_00_only
    bytes_sent,           \* do_flash_image: bytes_sent
    block_start,          \* do_flash_image: block_start
    chunk_file,           \* content of <tftp_root>/chunk.bin, or NoFile
    conn,                 \* serial port: "none", "open", "closed"
    rx,                   \* bytes the device has sent that conn.read has not returned yet
    rcv_str,              \* conn_wait_for / conn_wait_for_any: rcv_str
    emitted,              \* responses of the device since the last conn.write
    tftp_thread,          \* TFTP_srv_thread: "none", "running", "joined"
    err,                  \* the exception that reached the handler of __main__
    success,              \* "Image was flashed successfully." was logged
    trace,                \* the I/O the program has performed, in order
    waited,               \* seconds the wait in progress has lasted, at least
    ram,                  \* device: what was loaded at the load address, latest last
    mmc,                  \* device: what was written to the eMMC, latest last
    arg_len, arg_bs, res_blocks   \* input and result of the block count arithmetic

flash_vars == <<image, use_lzma, image_size, fpos, data, chunk_size_in_blocks,
                buffer_is_00_only, bytes_sent, block_start>>
io_vars    == <<chunk_file, conn, rx, rcv_str, emitted, tftp_thread>>
fn_vars    == <<arg_len, arg_bs, res_blocks>>
device_vars == <<ram, mmc>>
vars       == <<pc, args, flash_vars, io_vars, err, success, trace, fn_vars, waited,
                device_vars>>

----------------------------------------------------------------------------
(* Bounds of the model *)

\* the image holds at most this many full chunks before its last, partial one
MaxFullChunks == 1
\* the device sends at most this many responses after one command
MaxEmit == 1
\* the device sends nothing more while this many bytes are waiting to be read
MaxRx == 2
\* largest chunk length and block size tried on the block count arithmetic
MaxLen == 40
MaxBs == 8
\* a device that keeps talking sends at most this many responses after one command
MaxChatter == 2

----------------------------------------------------------------------------
(* Constants of the program *)

base_addr           == 0
mmc_device          == 1
mmc_part            == 0
mmc_block_size      == 512
chunk_size_in_bytes == 20*1024*1024
chunk_filename      == "chunk.bin"
load_addr           == "0x48000000"
\* serial.Serial(..., timeout=20): seconds one conn.read(1) waits for a byte
read_timeout        == 20

uboot_propmt == <<"=", ">">>
autoboot_banner ==
    <<"H","i","t"," ","a","n","y"," ","k","e","y"," ","t","o"," ",
      "s","t","o","p"," ","a","u","t","o","b","o","o","t",":">>

----------------------------------------------------------------------------
(* Byte strings *)

NoFile == [len |-> -1, bytes |-> <<>>]
EmptyBytes == [len |-> 0, bytes |-> <<>>]

\* b[i]
ByteAt(b, i) == IF i \in DOMAIN b.bytes THEN b.bytes[i] ELSE 0

\* f.read(n + 1): one byte more than asked for
FileRead_OneMore(f, pos, n) ==
    LET m == IF f.len - pos < n + 1 THEN f.len - pos ELSE n + 1
        offs == {i - pos : i \in {j \in DOMAIN f.bytes : j >= pos /\ j < pos + m}}
    IN  [len |-> m, bytes |-> [i \in offs |-> f.bytes[i + pos]]]

\* f.read(n) with the file position at pos
FileRead(f, pos, n) ==
    LET m == IF f.len - pos < n THEN f.len - pos ELSE n
        offs == {i - pos : i \in {j \in DOMAIN f.bytes : j >= pos /\ j < pos + m}}
    IN  [len |-> m, bytes |-> [i \in offs |-> f.bytes[i + pos]]]

----------------------------------------------------------------------------
(* Text *)

HexDigits == <<"0","1","2","3","4","5","6","7","8","9","A","B","C","D","E","F">>

\* f"{n:X}"
RECURSIVE ToHex(_)
ToHex(n) == IF n < 16 THEN <<HexDigits[n + 1]>>
            ELSE ToHex(n \div 16) \o <<HexDigits[(n % 16) + 1]>>

\* what the bootloader reads back from a hexadecimal argument
RECURSIVE HexValue(_)
HexValue(s) ==
    IF s = <<>> THEN 0
    ELSE LET d == CHOOSE k \in 1..16 : HexDigits[k] = s[Len(s)]
         IN  16 * HexValue(SubSeq(s, 1, Len(s) - 1)) + (d - 1)

\* expect in rcv_str
IsSubstr(expect, str) ==
    \E i \in 0..(Len(str) - Len(expect)) : SubSeq(str, i + 1, i + Len(expect)) = expect

Decimals == <<"0","1","2","3","4","5","6","7","8","9">>

\* f"{n}"
RECURSIVE ToDec(_)
ToDec(n) == IF n < 10 THEN <<Decimals[n + 1]>>
            ELSE ToDec(n \div 10) \o <<Decimals[(n % 10) + 1]>>

----------------------------------------------------------------------------
(* Commands written to the serial port, and the record of the program's I/O *)

Cmd(op, s1, s2, x, y) == [op |-> op, s1 |-> s1, s2 |-> s2, x |-> x, y |-> y]
NoCmd == Cmd("", "", "", <<>>, <<>>)

\* "\r"
CmdCR == Cmd("CR", "", "", <<>>, <<>>)
\* f"env set serverip {args.serverip}\r", f"env set ipaddr {args.ipaddr}\r"
CmdEnvSet(name, value) == Cmd("env set", name, value, <<>>, <<>>)
\* f"mmc dev {mmc_device} {mmc_part}\r"
CmdMmcDev == Cmd("mmc dev", "", "", ToDec(mmc_device), ToDec(mmc_part))
\* f"mw.b 0x48000000 0x00 0x{len(data):X}\r"
CmdFill(d) == Cmd("mw.b", load_addr, "0x00", ToHex(d.len), <<>>)
\* f"tftp 0x48000000 {chunk_filename}\r"
CmdTftp == Cmd("tftp", load_addr, chunk_filename, <<>>, <<>>)
\* f"mmc write 0x48000000 0x{block_start:X} 0x{chunk_size_in_blocks:X}\r"
CmdMmcWrite(start, count) == Cmd("mmc write", load_addr, "", ToHex(start), ToHex(count))

\* an event: an operation, the command of a send, the text a wait returned on
Event(ev, cmd, what) == [ev |-> ev, cmd |-> cmd, what |-> what]
Did(ev) == Append(trace, Event(ev, NoCmd, <<>>))
Sent(cmd) == Append(trace, Event("send", cmd, <<>>))
Matched(what) == Append(trace, Event("match", NoCmd, what))

\* the events of a kind, and the commands of a kind, performed so far
Count(ev) == Cardinality({i \in 1..Len(trace) : trace[i].ev = ev})
CountSent(op) ==
    Cardinality({i \in 1..Len(trace) : trace[i].ev = "send" /\ trace[i].cmd.op = op})

----------------------------------------------------------------------------
(* The arithmetic and the tests of the transfer loop *)

\* the block count without the increment for a partial block
BlockCount_Floor(len, bs) == len \div bs

\* chunk_size_in_blocks for a chunk of len bytes
BlockCount(len, bs) ==
    LET q == len \div bs
    IN  IF len % bs # 0 THEN q + 1 ELSE q

\* a scan that stops after the first byte
ZeroOnly_FirstByte(d) == ByteAt(d, 0) = 0

\* buffer_is_00_only after the scan of data
ZeroOnly(d) == \A i \in DOMAIN d.bytes : d.bytes[i] = 0

\* all([x not in rcv_str for x in expect]) is false
AnyMatch(expect, str) == \E k \in 1..Len(expect) : IsSubstr(expect[k], str)

\* the candidate that ended the wait
MatchOf(expect, str) == expect[CHOOSE k \in 1..Len(expect) : IsSubstr(expect[k], str)]

----------------------------------------------------------------------------
(* Inputs *)

None == ""
ExistingDirs == {"/srv/tftp"}
TftpArgs == {None, "AUTO", "/srv/tftp", "/no/such/dir"}
ServerIps == {None, "192.168.1.10"}
IpAddrs == {None, "192.168.1.20"}

MiB == 1024 * 1024
\* lengths of the last, partial chunk of an image
Tails == {0, 1}
ImageSizes == {k * chunk_size_in_bytes + t : k \in 0..MaxFullChunks, t \in Tails}
\* the offsets whose bytes the images differ in: the last byte of every chunk
Probes(size) ==
    {o \in {k * chunk_size_in_bytes - 1 : k \in 1..(MaxFullChunks + 1)} \cup {size - 1} :
        o >= 0 /\ o < size}
\* the image of the 45 MiB example, none of its three chunks all zero
ExampleImage ==
    [len |-> 45 * MiB,
     bytes |-> [o \in {20 * MiB - 1, 40 * MiB - 1, 45 * MiB - 1} |-> 255]]
\* a full chunk that begins with a byte that is not zero, then one zero byte
SparseTailImage ==
    [len |-> chunk_size_in_bytes + 1, bytes |-> [o \in {0} |-> 255]]
Images == UNION {{[len |-> size, bytes |-> b] : b \in [Probes(size) -> {0, 255}]} :
                 size \in ImageSizes} \cup {ExampleImage, SparseTailImage}
\* a chunk.bin left in the TFTP root by an earlier run
StaleChunk == [len |-> 1, bytes |-> [i \in {0} |-> 170]]

\* what the device may send: the prompt, the autoboot banner, other output
Noise == <<"x">>
Responses == {uboot_propmt, autoboot_banner, Noise}

Init ==
    /\ pc = "main"
    /\ args \in [tftp : TftpArgs, serverip : ServerIps, ipaddr : IpAddrs]
    /\ image \in Images \cup {NoFile}
    /\ use_lzma \in BOOLEAN
    /\ chunk_file \in {NoFile, StaleChunk}
    /\ image_size = 0
    /\ fpos = 0
    /\ data = EmptyBytes
    /\ chunk_size_in_blocks = 0
    /\ buffer_is_00_only = TRUE
    /\ bytes_sent = 0
    /\ block_start = 0
    /\ conn = "none"
    /\ rx = <<>>
    /\ rcv_str = <<>>
    /\ emitted = 0
    /\ tftp_thread = "none"
    /\ err = "none"
    /\ success = FALSE
    /\ trace = <<>>
    /\ waited = 0
    /\ ram = <<>>
    /\ mmc = <<>>
    /\ arg_len = 0 /\ arg_bs = 0 /\ res_blocks = 0

----------------------------------------------------------------------------
(* Steps shared by the actions *)

\* the bootloader carries out a command it receives: mw.b fills the memory at
\* the load address with zeros, tftp loads chunk.bin as the TFTP root holds it,
\* mmc write copies blocks from the load address to the eMMC
DeviceExec(cmd) ==
    CASE cmd.op = "mw.b" ->
           /\ ram' = Append(ram, [len |-> HexValue(cmd.x), bytes |-> <<>>])
           /\ UNCHANGED mmc
      [] cmd.op = "tftp" ->
           /\ ram' = IF chunk_file # NoFile THEN Append(ram, chunk_file) ELSE ram
           /\ UNCHANGED mmc
      [] cmd.op = "mmc write" ->
           /\ mmc' = Append(mmc, [at  |-> HexValue(cmd.x) * mmc_block_size,
                                  len |-> HexValue(cmd.y) * mmc_block_size,
                                  ram |-> ram])
           /\ UNCHANGED ram
      [] OTHER -> UNCHANGED <<ram, mmc>>

\* an exception leaves do_flash_image and main and is logged by __main__
Raise(e) ==
    /\ pc' = "failed"
    /\ err' = e

\* the receive buffer is kept from one wait to the next
SendThenWait_KeepBuffer(cmd, wait) ==
    /\ trace' = Sent(cmd)
    /\ emitted' = 0
    /\ rcv_str' = rcv_str
    /\ waited' = 0
    /\ DeviceExec(cmd)
    /\ pc' = wait

\* conn_send(conn, cmd) followed by the entry of a wait: rcv_str = ""
SendThenWait(cmd, wait) ==
    /\ trace' = Sent(cmd)
    /\ emitted' = 0
    /\ rcv_str' = <<>>
    /\ waited' = 0
    /\ DeviceExec(cmd)
    /\ pc' = wait

----------------------------------------------------------------------------
(* main(), lines 52-66 *)

\* args.tftp == "AUTO": the server thread is started
StartOwnTftp ==
    /\ pc = "main"
    /\ args.tftp = "AUTO"
    /\ tftp_thread' = "running"
    /\ trace' = Did("start_server")
    /\ pc' = "open_connection"
    /\ UNCHANGED <<args, flash_vars, chunk_file, conn, rx, rcv_str, emitted, err,
                   success, fn_vars, waited,
                   device_vars>>

\* any value of -t other than AUTO is taken as the root, unchecked
UseExternalRoot_Unchecked ==
    /\ pc = "main"
    /\ args.tftp # "AUTO"
    /\ pc' = "open_connection"
    /\ UNCHANGED <<args, flash_vars, io_vars, err, success, trace, fn_vars, waited,
                   device_vars>>

\* os.path.isdir(args.tftp)
UseExternalRoot ==
    /\ pc = "main"
    /\ args.tftp # "AUTO"
    /\ args.tftp # None
    /\ args.tftp \in ExistingDirs
    /\ pc' = "open_connection"
    /\ UNCHANGED <<args, flash_vars, io_vars, err, success, trace, fn_vars, waited,
                   device_vars>>

\* no -t at all (os.path.isdir(None) raises TypeError), or -t names no directory
BadTftpArg ==
    /\ pc = "main"
    /\ args.tftp # "AUTO"
    /\ \/ args.tftp = None /\ Raise("TypeError")
       \/ args.tftp # None /\ args.tftp \notin ExistingDirs /\ Raise("Exception")
    /\ UNCHANGED <<args, flash_vars, io_vars, success, trace, fn_vars, waited,
                   device_vars>>

----------------------------------------------------------------------------
(* do_flash_image(), lines 88-104: the connection and the prompt *)

\* open_connection(args)
OpenConnection ==
    /\ pc = "open_connection"
    /\ \/ /\ conn' = "open"
          /\ trace' = Did("open")
          /\ pc' = "send_cr1"
          /\ UNCHANGED err
       \/ /\ Raise("SerialException")
          /\ UNCHANGED <<conn, trace>>
    /\ UNCHANGED <<args, flash_vars, chunk_file, rx, rcv_str, emitted, tftp_thread,
                   success, fn_vars, waited,
                   device_vars>>

\* conn_send(conn, "\r"), line 100
SendCR1 ==
    /\ pc = "send_cr1"
    /\ SendThenWait(CmdCR, "wait_any")
    /\ UNCHANGED <<args, flash_vars, chunk_file, conn, rx, tftp_thread, err, success,
                   fn_vars>>

\* conn_send(conn, "\r"), line 103
SendCR2 ==
    /\ pc = "send_cr2"
    /\ SendThenWait(CmdCR, "wait_prompt")
    /\ UNCHANGED <<args, flash_vars, chunk_file, conn, rx, tftp_thread, err, success,
                   fn_vars>>

----------------------------------------------------------------------------
(* conn_wait_for and conn_wait_for_any: one conn.read(1) per step *)

WaitForSites == {"wait_prompt", "wait_serverip", "wait_ipaddr", "wait_mmc_dev",
                 "wait_fill", "wait_tftp", "wait_mmc_write"}

\* the interrupt is repeated after the wait for the prompt
AfterWait_InterruptAgain(p) ==
    CASE p = "wait_any"       -> "send_cr2"
      [] p = "wait_prompt"    -> "send_cr2"
      [] p = "wait_serverip"  -> "env_ipaddr"
      [] p = "wait_ipaddr"    -> "mmc_dev"
      [] p = "wait_mmc_dev"   -> "read_chunk"
      [] p = "wait_fill"      -> "mmc_write"
      [] p = "wait_tftp"      -> "mmc_write"
      [] p = "wait_mmc_write" -> "advance"

\* the statement after each wait
AfterWait(p) ==
    CASE p = "wait_any"       -> "send_cr2"
      [] p = "wait_prompt"    -> "setup"
      [] p = "wait_serverip"  -> "env_ipaddr"
      [] p = "wait_ipaddr"    -> "mmc_dev"
      [] p = "wait_mmc_dev"   -> "read_chunk"
      [] p = "wait_fill"      -> "mmc_write"
      [] p = "wait_tftp"      -> "mmc_write"
      [] p = "wait_mmc_write" -> "advance"

\* a wait that gives up on a timeout and lets the caller go on
WaitLoop_IgnoreTimeout(expect) ==
    \/ /\ rx # <<>>
       /\ rx' = Tail(rx)
       /\ rcv_str' = Append(rcv_str, Head(rx))
       /\ IF AnyMatch(expect, rcv_str')
            THEN pc' = AfterWait(pc) /\ trace' = Matched(MatchOf(expect, rcv_str'))
            ELSE UNCHANGED <<pc, trace>>
       /\ UNCHANGED <<err, waited>>
    \/ /\ rx = <<>>
       /\ waited' = waited + read_timeout
       /\ pc' = AfterWait(pc)
       /\ UNCHANGED <<rx, rcv_str, trace, err>>

\* a wait that logs the timeout and lets the caller go on
WaitLoop_LogAndGoOn(expect) ==
    \/ /\ rx # <<>>
       /\ rx' = Tail(rx)
       /\ rcv_str' = Append(rcv_str, Head(rx))
       /\ IF AnyMatch(expect, rcv_str')
            THEN pc' = AfterWait(pc) /\ trace' = Matched(MatchOf(expect, rcv_str'))
            ELSE UNCHANGED <<pc, trace>>
       /\ UNCHANGED <<err, waited>>
    \/ /\ rx = <<>>
       /\ waited' = waited + read_timeout
       /\ err' = "TimeoutError"
       /\ pc' = AfterWait(pc)
       /\ UNCHANGED <<rx, rcv_str, trace>>

\* one turn of the read loop of a wait for any of expect
WaitLoop(expect) ==
    \/ /\ rx # <<>>
       /\ rx' = Tail(rx)
       /\ rcv_str' = Append(rcv_str, Head(rx))
       /\ IF AnyMatch(expect, rcv_str')
            THEN pc' = AfterWait(pc) /\ trace' = Matched(MatchOf(expect, rcv_str'))
            ELSE UNCHANGED <<pc, trace>>
       /\ UNCHANGED <<err, waited>>
    \/ /\ rx = <<>>
       /\ waited' = waited + read_timeout
       /\ Raise("TimeoutError")
       /\ UNCHANGED <<rx, rcv_str, trace>>

conn_wait_for ==
    /\ pc \in WaitForSites
    /\ WaitLoop(<<uboot_propmt>>)
    /\ UNCHANGED <<args, flash_vars, chunk_file, conn, emitted, tftp_thread, success,
                   fn_vars, device_vars>>

conn_wait_for_any ==
    /\ pc = "wait_any"
    /\ WaitLoop(<<uboot_propmt, autoboot_banner>>)
    /\ UNCHANGED <<args, flash_vars, chunk_file, conn, emitted, tftp_thread, success,
                   fn_vars, device_vars>>

----------------------------------------------------------------------------
(* do_flash_image(), lines 106-141: the image and the environment *)

\* lines 106-129
Setup ==
    /\ pc = "setup"
    /\ \/ /\ image = NoFile
          /\ Raise("FileNotFoundError")
          /\ UNCHANGED <<image_size, bytes_sent, block_start, fpos>>
       \/ /\ image # NoFile
          /\ image_size' = IF use_lzma THEN 0 ELSE image.len
          /\ fpos' = 0
          /\ bytes_sent' = 0
          /\ block_start' = base_addr \div mmc_block_size
          /\ pc' = "env_serverip"
          /\ UNCHANGED err
    /\ UNCHANGED <<args, image, use_lzma, data, chunk_size_in_blocks, buffer_is_00_only,
                   io_vars, success, trace, fn_vars, waited,
                   device_vars>>

\* lines 131-133
EnvServerIp ==
    /\ pc = "env_serverip"
    /\ IF args.serverip # None
         THEN SendThenWait(CmdEnvSet("serverip", args.serverip), "wait_serverip")
         ELSE pc' = "env_ipaddr" /\ UNCHANGED <<trace, emitted, rcv_str, waited, device_vars>>
    /\ UNCHANGED <<args, flash_vars, chunk_file, conn, rx, tftp_thread, err, success,
                   fn_vars>>

\* the test of args.serverip is repeated for ipaddr
EnvIpAddr_CopyPaste ==
    /\ pc = "env_ipaddr"
    /\ IF args.serverip # None
         THEN SendThenWait(CmdEnvSet("ipaddr", args.ipaddr), "wait_ipaddr")
         ELSE pc' = "mmc_dev" /\ UNCHANGED <<trace, emitted, rcv_str, waited, device_vars>>
    /\ UNCHANGED <<args, flash_vars, chunk_file, conn, rx, tftp_thread, err, success,
                   fn_vars>>

\* lines 135-137
EnvIpAddr ==
    /\ pc = "env_ipaddr"
    /\ IF args.ipaddr # None
         THEN SendThenWait(CmdEnvSet("ipaddr", args.ipaddr), "wait_ipaddr")
         ELSE pc' = "mmc_dev" /\ UNCHANGED <<trace, emitted, rcv_str, waited, device_vars>>
    /\ UNCHANGED <<args, flash_vars, chunk_file, conn, rx, tftp_thread, err, success,
                   fn_vars>>

\* line 140
MmcDev ==
    /\ pc = "mmc_dev"
    /\ SendThenWait(CmdMmcDev, "wait_mmc_dev")
    /\ UNCHANGED <<args, flash_vars, chunk_file, conn, rx, tftp_thread, err, success,
                   fn_vars>>

----------------------------------------------------------------------------
(* do_flash_image(), lines 147-189: the transfer loop *)

\* lines 148-164: read a chunk, leave the loop at the end of the file, count the
\* blocks and scan for a byte that is not zero
ReadChunk ==
    /\ pc = "read_chunk"
    /\ data' = FileRead(image, fpos, chunk_size_in_bytes)
    /\ fpos' = fpos + data'.len
    /\ IF data'.len = 0
         THEN /\ pc' = "remove"
              /\ UNCHANGED <<chunk_size_in_blocks, buffer_is_00_only>>
         ELSE /\ chunk_size_in_blocks' = BlockCount(data'.len, mmc_block_size)
              /\ buffer_is_00_only' = ZeroOnly(data')
              /\ pc' = "load"
    /\ UNCHANGED <<args, image, use_lzma, image_size, bytes_sent, block_start, io_vars,
                   err, success, trace, fn_vars, waited,
                   device_vars>>

\* the zero chunk is fetched like a chunk with data, chunk.bin left as it is
Fill_Fetch ==
    /\ pc = "load"
    /\ buffer_is_00_only
    /\ SendThenWait(CmdTftp, "wait_tftp")
    /\ UNCHANGED <<args, flash_vars, chunk_file, conn, rx, tftp_thread, err, success,
                   fn_vars>>

\* a chunk of zeros goes to the eMMC without a load before it
Fill_Skip ==
    /\ pc = "load"
    /\ buffer_is_00_only
    /\ pc' = "mmc_write"
    /\ UNCHANGED <<args, flash_vars, io_vars, err, success, trace, fn_vars, waited,
                   device_vars>>

\* lines 166-168
Fill ==
    /\ pc = "load"
    /\ buffer_is_00_only
    /\ SendThenWait(CmdFill(data), "wait_fill")
    /\ UNCHANGED <<args, flash_vars, chunk_file, conn, rx, tftp_thread, err, success,
                   fn_vars>>

\* lines 171-173: the chunk is written to chunk.bin, unless the file cannot be
\* opened or the write fails after the file was truncated
Stage ==
    /\ pc = "load"
    /\ ~buffer_is_00_only
    /\ \/ /\ chunk_file' = data
          /\ trace' = Did("stage")
          /\ pc' = "send_tftp"
          /\ UNCHANGED err
       \/ /\ Raise("OSError")
          /\ chunk_file' \in {chunk_file, EmptyBytes}
          /\ UNCHANGED trace
    /\ UNCHANGED <<args, flash_vars, conn, rx, rcv_str, emitted, tftp_thread, success,
                   fn_vars, waited,
                   device_vars>>

\* lines 175-176
Tftp ==
    /\ pc = "send_tftp"
    /\ SendThenWait(CmdTftp, "wait_tftp")
    /\ UNCHANGED <<args, flash_vars, chunk_file, conn, rx, tftp_thread, err, success,
                   fn_vars>>

\* the write command is sent and its prompt is not waited for
MmcWrite_NoWait ==
    /\ pc = "mmc_write"
    /\ trace' = Sent(CmdMmcWrite(block_start, chunk_size_in_blocks))
    /\ emitted' = 0
    /\ rcv_str' = <<>>
    /\ waited' = 0
    /\ DeviceExec(CmdMmcWrite(block_start, chunk_size_in_blocks))
    /\ pc' = "advance"
    /\ UNCHANGED <<args, flash_vars, chunk_file, conn, rx, tftp_thread, err, success,
                   fn_vars>>

\* lines 178-179
MmcWrite ==
    /\ pc = "mmc_write"
    /\ SendThenWait(CmdMmcWrite(block_start, chunk_size_in_blocks), "wait_mmc_write")
    /\ UNCHANGED <<args, flash_vars, chunk_file, conn, rx, tftp_thread, err, success,
                   fn_vars>>

\* bytes_sent counts a full chunk for every chunk
Advance_FullChunk ==
    /\ pc = "advance"
    /\ bytes_sent' = bytes_sent + chunk_size_in_bytes
    /\ block_start' = block_start + chunk_size_in_blocks
    /\ pc' = "read_chunk"
    /\ UNCHANGED <<args, image, use_lzma, image_size, fpos, data, chunk_size_in_blocks,
                   buffer_is_00_only, io_vars, err, success, trace, fn_vars, waited,
                   device_vars>>

\* the cursor moves on by the bytes of the chunk
Advance_ByBytes ==
    /\ pc = "advance"
    /\ bytes_sent' = bytes_sent + data.len
    /\ block_start' = block_start + data.len
    /\ pc' = "read_chunk"
    /\ UNCHANGED <<args, image, use_lzma, image_size, fpos, data, chunk_size_in_blocks,
                   buffer_is_00_only, io_vars, err, success, trace, fn_vars, waited,
                   device_vars>>

\* lines 181-189
Advance ==
    /\ pc = "advance"
    /\ bytes_sent' = bytes_sent + data.len
    /\ block_start' = block_start + chunk_size_in_blocks
    /\ pc' = "read_chunk"
    /\ UNCHANGED <<args, image, use_lzma, image_size, fpos, data, chunk_size_in_blocks,
                   buffer_is_00_only, io_vars, err, success, trace, fn_vars, waited,
                   device_vars>>

----------------------------------------------------------------------------
(* do_flash_image(), lines 191-201, and main(), lines 70-73 *)

\* os.remove(out_fullname)
Remove ==
    /\ pc = "remove"
    /\ \/ /\ chunk_file = NoFile
          /\ Raise("FileNotFoundError")
          /\ UNCHANGED <<chunk_file, trace>>
       \/ /\ chunk_file # NoFile
          /\ chunk_file' = NoFile
          /\ trace' = Did("remove")
          /\ pc' = "close"
          /\ UNCHANGED err
    /\ UNCHANGED <<args, flash_vars, conn, rx, rcv_str, emitted, tftp_thread, success,
                   fn_vars, waited,
                   device_vars>>

\* lines 195-201
Close ==
    /\ pc = "close"
    /\ conn' = "closed"
    /\ trace' = Did("close")
    /\ success' = TRUE
    /\ pc' = "main_stop"
    /\ UNCHANGED <<args, flash_vars, chunk_file, rx, rcv_str, emitted, tftp_thread, err,
                   fn_vars, waited,
                   device_vars>>

\* lines 70-73
MainStop ==
    /\ pc = "main_stop"
    /\ IF args.tftp = "AUTO"
         THEN /\ tftp_thread' = "joined"
              /\ trace' = Append(Did("stop_server"), Event("join", NoCmd, <<>>))
         ELSE UNCHANGED <<tftp_thread, trace>>
    /\ pc' = "done"
    /\ UNCHANGED <<args, flash_vars, chunk_file, conn, rx, rcv_str, emitted, err,
                   success, fn_vars, waited,
                   device_vars>>

----------------------------------------------------------------------------
(* The device *)

\* the main thread is blocked in conn.read, or has not written anything yet
Listening == pc \in WaitForSites \cup {"wait_any", "send_cr1"}
\* the banner is printed while U-Boot starts, before its first prompt
Booting == pc \in {"send_cr1", "wait_any"}

DeviceEmit ==
    /\ conn = "open"
    /\ Listening
    /\ emitted < MaxEmit
    /\ Len(rx) < MaxRx
    /\ \E r \in Responses :
          /\ r = autoboot_banner => Booting
          /\ rx' = rx \o r
    /\ emitted' = emitted + 1
    /\ UNCHANGED <<pc, args, flash_vars, chunk_file, conn, rcv_str, tftp_thread, err,
                   success, trace, fn_vars, waited,
                   device_vars>>

----------------------------------------------------------------------------

Next ==
    \/ StartOwnTftp \/ UseExternalRoot \/ BadTftpArg
    \/ OpenConnection \/ SendCR1 \/ conn_wait_for_any \/ SendCR2 \/ conn_wait_for
    \/ Setup \/ EnvServerIp \/ EnvIpAddr \/ MmcDev
    \/ ReadChunk \/ Fill \/ Stage \/ Tftp \/ MmcWrite \/ Advance
    \/ Remove \/ Close \/ MainStop
    \/ DeviceEmit

Spec == Init /\ [][Next]_vars

----------------------------------------------------------------------------
(* The program on a device that keeps talking: bytes that arrive while     *)
(* conn.read(1) is blocked, each before the timeout of that read runs out  *)

\* seconds into a read at which a byte may arrive
LateDelays == {1, read_timeout - 1}

DeviceEmitLate ==
    /\ conn = "open"
    /\ pc \in WaitForSites \cup {"wait_any"}
    /\ rx = <<>>
    /\ emitted < MaxChatter
    /\ \E r \in Responses, d \in LateDelays :
          /\ r = autoboot_banner => Booting
          /\ rx' = r
          /\ waited' = waited + d
    /\ emitted' = emitted + 1
    /\ UNCHANGED <<pc, args, flash_vars, chunk_file, conn, rcv_str, tftp_thread, err,
                   success, trace, fn_vars, device_vars>>

\* one-byte images, no addresses to set, a chunk.bin left by an earlier run
InitChatter ==
    /\ Init
    /\ args.serverip = None
    /\ args.ipaddr = None
    /\ image # NoFile
    /\ image.len = 1
    /\ ~use_lzma
    /\ chunk_file = StaleChunk

NextChatter == Next \/ DeviceEmitLate

SpecChatter == InitChatter /\ [][NextChatter]_vars

----------------------------------------------------------------------------
(* Vocabulary of the properties *)

Ended == pc \in {"failed", "done"}
IsSend(i, op) == trace[i].ev = "send" /\ trace[i].cmd.op = op
IsMatch(i) == trace[i].ev = "match"
\* the text the first wait of the session returned on, <<>> before that
FirstMatch ==
    IF \E i \in 1..Len(trace) : IsMatch(i)
      THEN trace[CHOOSE i \in 1..Len(trace) :
                    IsMatch(i) /\ \A j \in 1..(i - 1) : ~IsMatch(j)].what
      ELSE <<>>
\* the record of the session without the start of the TFTP server
SerialTrace == SelectSeq(trace, LAMBDA e : e.ev # "start_server")

----------------------------------------------------------------------------
(* C1: a session that ends on a prompt timeout has still removed chunk.bin, *)
(* stopped the TFTP server it started and closed the serial port, once.     *)
C1_TimeoutStillCleansUp ==
    (pc = "failed" /\ err = "TimeoutError") =>
        /\ chunk_file = NoFile
        /\ Count("close") = 1
        /\ (args.tftp = "AUTO" => Count("stop_server") = 1)

(* C2: the own TFTP server is started before the first byte is sent, and   *)
(* whenever the program has ended, normally or not, the server thread has  *)
(* been stopped and joined.                                                *)
C2_OwnServerAlwaysStopped ==
    args.tftp = "AUTO" =>
        /\ (Count("send") > 0 => trace[1].ev = "start_server")
        /\ (Ended => tftp_thread = "joined" /\ Count("stop_server") = 1)

(* C3: a session that read its whole image with every wait matched and    *)
(* staged no chunk ends with chunk.bin's removal succeeding, the port      *)
(* closed and success reported.                                            *)
C3_UnstageWithoutArtifactSucceeds ==
    (/\ Ended
     /\ err # "TimeoutError"
     /\ image # NoFile
     /\ CountSent("mmc dev") = 1
     /\ bytes_sent = image.len
     /\ Count("stage") = 0)
    => (success /\ conn = "closed")

(* C4: when the first wait returned on the prompt "=>", only the one       *)
(* carriage return is ever sent.                                           *)
C4_PromptFirstSkipsInterrupt ==
    FirstMatch = uboot_propmt => CountSent("CR") = 1

(* C5: when the first wait returned on the autoboot banner and the second  *)
(* on the prompt, the session is at the environment configuration without  *)
(* an error, and exactly two carriage returns are sent in the session.     *)
C5_BannerThenPrompt ==
    /\ (pc = "wait_prompt" => ~IsSubstr(uboot_propmt, rcv_str))
    /\ (FirstMatch = autoboot_banner /\ Count("match") >= 2) =>
           /\ CountSent("CR") = 2
           /\ SubSeq(SerialTrace, 1, 5) =
                 <<Event("open", NoCmd, <<>>),
                   Event("send", CmdCR, <<>>),
                   Event("match", NoCmd, autoboot_banner),
                   Event("send", CmdCR, <<>>),
                   Event("match", NoCmd, uboot_propmt)>>
    /\ (FirstMatch = autoboot_banner /\ Count("match") = 2 /\ Count("send") = 2) =>
           /\ err # "TimeoutError"
           /\ pc \in {"setup", "env_serverip", "env_ipaddr", "mmc_dev", "failed"}
           /\ pc = "failed" => image = NoFile

C5_Witness ==
    /\ FirstMatch = autoboot_banner
    /\ pc = "env_serverip"
    /\ CountSent("CR") = 2

----------------------------------------------------------------------------
(* The chunks of the image, read off the image itself *)

\* the main thread is between reading a chunk and counting it as sent
InChunk == pc \in {"load", "send_tftp", "wait_fill", "wait_tftp", "mmc_write",
                   "wait_mmc_write", "advance"}
\* the loop was left at the end of the file
AfterLoop == pc \in {"remove", "close", "main_stop", "done"}

CeilDiv(n, d) == (n + d - 1) \div d
\* number of chunks that lie below offset pos
ChunksBelow(pos) == CeilDiv(pos, chunk_size_in_bytes)
ChunkLen(k) ==
    IF image.len - k * chunk_size_in_bytes < chunk_size_in_bytes
      THEN image.len - k * chunk_size_in_bytes
      ELSE chunk_size_in_bytes
ChunkHasData(k) ==
    \E o \in DOMAIN image.bytes : o \div chunk_size_in_bytes = k /\ image.bytes[o] # 0
DataChunksBelow(pos) == Cardinality({k \in 0..(ChunksBelow(pos) - 1) : ChunkHasData(k)})
ZeroChunksBelow(pos) == Cardinality({k \in 0..(ChunksBelow(pos) - 1) : ~ChunkHasData(k)})
\* blocks taken by the first n chunks
RECURSIVE BlocksOfChunks(_)
BlocksOfChunks(n) ==
    IF n = 0 THEN 0 ELSE BlocksOfChunks(n - 1) + CeilDiv(ChunkLen(n - 1), mmc_block_size)
LastEvent == trace[Len(trace)]

----------------------------------------------------------------------------
(* C6: a chunk is loaded by "mw.b 0x48000000 0x00 <len(chunk)>" exactly    *)
(* when all its bytes are zero and is staged and fetched otherwise; an     *)
(* all-zero chunk causes no write of chunk.bin and no tftp command; either *)
(* way the block cursor moves on by ceil(len(chunk) / block size).         *)
C6_SparseDetection ==
    /\ pc = "wait_fill" =>
          /\ \A i \in DOMAIN data.bytes : data.bytes[i] = 0
          /\ LastEvent.ev = "send"
          /\ LastEvent.cmd.op = "mw.b"
          /\ LastEvent.cmd.s1 = "0x48000000"
          /\ LastEvent.cmd.s2 = "0x00"
          /\ HexValue(LastEvent.cmd.x) = data.len
    /\ pc \in {"send_tftp", "wait_tftp"} =>
          /\ \E i \in DOMAIN data.bytes : data.bytes[i] # 0
          /\ chunk_file = data
          /\ pc = "wait_tftp" => LastEvent = Event("send", CmdTftp, <<>>)
    /\ pc = "read_chunk" \/ AfterLoop =>
          /\ CountSent("mw.b") = ZeroChunksBelow(fpos)
          /\ CountSent("tftp") = DataChunksBelow(fpos)
          /\ Count("stage") = DataChunksBelow(fpos)
          /\ block_start = base_addr \div mmc_block_size + BlocksOfChunks(ChunksBelow(fpos))

C6_Witness ==
    /\ pc = "done"
    /\ CountSent("mw.b") > 0
    /\ CountSent("tftp") > 0

(* C7: when the size of the image is known and the loop has ended,         *)
(* bytes_sent is the size of the image and the block cursor is             *)
(* base block + ceil(size / block size); every chunk is the bytes of the   *)
(* image from offset bytes_sent on, none dropped and none sent twice.      *)
C7_AllBytesSent ==
    /\ (AfterLoop /\ ~use_lzma) =>
          /\ bytes_sent = image.len
          /\ image_size = image.len
          /\ block_start = base_addr \div mmc_block_size + CeilDiv(image.len, mmc_block_size)
    /\ (InChunk /\ ~use_lzma) =>
          /\ bytes_sent + data.len = fpos
          /\ \A i \in DOMAIN data.bytes : data.bytes[i] = ByteAt(image, bytes_sent + i)
          /\ \A o \in DOMAIN image.bytes :
                (o >= bytes_sent /\ o < fpos) => ByteAt(data, o - bytes_sent) = image.bytes[o]

C7_Witness ==
    /\ pc = "done"
    /\ ~use_lzma
    /\ image.len = chunk_size_in_bytes + 1
    /\ bytes_sent = image.len

(* C8: an image of S > 0 bytes is processed in ceil(S / C) chunks of 1..C  *)
(* bytes, all but the last of C bytes; each chunk gets one load (mw.b or   *)
(* tftp) followed by one mmc write.  45 MiB are written as 20, 20 and      *)
(* 5 MiB: 0xA000, 0xA000 and 0x2800 blocks from block 0, 0xA000 and        *)
(* 0x14000, and the cursor ends at ceil(45 MiB / 512).                     *)
Loads == {i \in 1..Len(trace) : IsSend(i, "mw.b") \/ IsSend(i, "tftp")}
Writes == {i \in 1..Len(trace) : IsSend(i, "mmc write")}
WriteArgs == SelectSeq(trace, LAMBDA e : e.ev = "send" /\ e.cmd.op = "mmc write")

C8_Chunking ==
    /\ InChunk =>
          /\ data.len >= 1
          /\ data.len <= 20 * MiB
          /\ fpos < image.len => data.len = 20 * MiB
    /\ (AfterLoop /\ image.len > 0) =>
          /\ Cardinality(Writes) = CeilDiv(image.len, 20 * MiB)
          /\ Cardinality(Loads) = CeilDiv(image.len, 20 * MiB)
    /\ \A i \in Writes : i >= 3 /\ IsMatch(i - 1) /\ (i - 2) \in Loads
    /\ \A i \in Loads : (i + 2 <= Len(trace)) => IsMatch(i + 1) /\ (i + 2) \in Writes
    /\ (InChunk /\ image.len = 45 * MiB) =>
          data.len = IF bytes_sent < 40 * MiB THEN 20 * MiB ELSE 5 * MiB
    /\ (AfterLoop /\ image.len = 45 * MiB) =>
          /\ Len(WriteArgs) = 3
          /\ \A k \in 1..3 : HexValue(WriteArgs[k].cmd.x) = (k - 1) * 40960
          /\ HexValue(WriteArgs[1].cmd.y) = 40960
          /\ HexValue(WriteArgs[2].cmd.y) = 40960
          /\ HexValue(WriteArgs[3].cmd.y) = 10240
          /\ block_start = 92160

C8_Witness ==
    /\ pc = "done"
    /\ image.len = 45 * MiB
    /\ Count("stage") = 3
    /\ CountSent("mmc write") = 3

(* C10: for a chunk that is not all zero the order is: chunk.bin written,  *)
(* tftp sent, prompt matched, mmc write sent, prompt matched; chunk.bin is *)
(* written again only after the prompt that follows the mmc write of the   *)
(* chunk before, and keeps the chunk while its fetch or write is pending.  *)
Stages == {i \in 1..Len(trace) : trace[i].ev = "stage"}

C10_PerChunkOrder ==
    /\ \A i \in Stages :
          /\ (i + 1 <= Len(trace)) => IsSend(i + 1, "tftp")
          /\ (i + 2 <= Len(trace)) => IsMatch(i + 2) /\ trace[i + 2].what = uboot_propmt
          /\ (i + 3 <= Len(trace)) => IsSend(i + 3, "mmc write")
          /\ (i + 4 <= Len(trace)) => IsMatch(i + 4) /\ trace[i + 4].what = uboot_propmt
          /\ \A j \in Stages : (j > i) => j >= i + 5
          /\ i >= 3 /\ IsMatch(i - 1) /\ (IsSend(i - 2, "mmc write") \/ IsSend(i - 2, "mmc dev"))
    /\ (pc \in {"send_tftp", "wait_tftp", "mmc_write", "wait_mmc_write"}
        /\ ~buffer_is_00_only) => chunk_file = data

C10_Witness ==
    /\ Cardinality(Stages) >= 2
    /\ pc = "done"

----------------------------------------------------------------------------
(* The block count on its own: lines 156-158, 178 and 182 applied to a     *)
(* chunk length and a block size drawn from a range                        *)

ChunkLengths == (1..MaxLen) \cup {511, 512, 513, 5 * MiB, 20 * MiB}
BlockSizes == (1..MaxBs) \cup {512}

InitBlockCount ==
    /\ pc = "count_blocks"
    /\ arg_len \in ChunkLengths
    /\ arg_bs \in BlockSizes
    /\ res_blocks = 0
    /\ args = [tftp |-> "AUTO", serverip |-> None, ipaddr |-> None]
    /\ image = NoFile
    /\ use_lzma = FALSE
    /\ chunk_file = NoFile
    /\ image_size = 0
    /\ fpos = 0
    /\ data = EmptyBytes
    /\ chunk_size_in_blocks = 0
    /\ buffer_is_00_only = TRUE
    /\ bytes_sent = 0
    /\ block_start = 0
    /\ conn = "open"
    /\ rx = <<>>
    /\ rcv_str = <<>>
    /\ emitted = 0
    /\ tftp_thread = "none"
    /\ err = "none"
    /\ success = FALSE
    /\ trace = <<>>
    /\ waited = 0
    /\ ram = <<>>
    /\ mmc = <<>>

\* the block count of the chunk, the mmc write command and the cursor after it
CountBlocks ==
    /\ pc = "count_blocks"
    /\ res_blocks' = BlockCount(arg_len, arg_bs)
    /\ trace' = Sent(CmdMmcWrite(block_start, res_blocks'))
    /\ block_start' = block_start + res_blocks'
    /\ pc' = "counted"
    /\ UNCHANGED <<args, image, use_lzma, image_size, fpos, data, chunk_size_in_blocks,
                   buffer_is_00_only, bytes_sent, io_vars, err, success, arg_len, arg_bs,
                   waited, device_vars>>

NextBlockCount == CountBlocks

SpecBlockCount == InitBlockCount /\ [][NextBlockCount]_vars

(* C9: for a chunk of L >= 1 bytes and blocks of B >= 1 bytes, the block   *)
(* count n in the mmc write command and in the cursor advance is           *)
(* ceil(L / B): n * B >= L and (n - 1) * B < L.                            *)
C9_BlockCountIsCeil ==
    pc = "counted" =>
        /\ res_blocks * arg_bs >= arg_len
        /\ (res_blocks - 1) * arg_bs < arg_len
        /\ HexValue(LastEvent.cmd.y) = res_blocks
        /\ block_start = res_blocks

C9_Witness ==
    /\ pc = "counted"
    /\ arg_len = 513
    /\ arg_bs = 512
    /\ res_blocks = 2

----------------------------------------------------------------------------
(* C11: in every state the tftp commands sent are at most the writes of    *)
(* chunk.bin and fall short of them by at most one, each tftp coming       *)
(* right after a write of chunk.bin; once the loop has ended at the end of *)
(* the image, the mmc write commands sent are as many as the chunks read.  *)
C11_CommandCounts ==
    /\ CountSent("tftp") <= Count("stage")
    /\ Count("stage") - CountSent("tftp") <= 1
    /\ \A i \in 1..Len(trace) : IsSend(i, "tftp") => (i > 1 /\ trace[i - 1].ev = "stage")
    /\ CountSent("mmc write") <= ChunksBelow(fpos)
    /\ AfterLoop =>
          /\ fpos = image.len
          /\ CountSent("mmc write") = ChunksBelow(fpos)
          /\ CountSent("mw.b") + CountSent("tftp") = CountSent("mmc write")

C11_Witness ==
    /\ pc = "done"
    /\ CountSent("tftp") >= 1
    /\ CountSent("mw.b") >= 1
    /\ CountSent("mmc write") = 2

(* C12: success is reported only when the loop was left at the end of the  *)
(* image with every wait before it matched, chunk.bin removed and the port *)
(* closed; a session that failed at any step never reports success.        *)
C12_SuccessOnlyAfterAll ==
    /\ success =>
          /\ err = "none"
          /\ pc \in {"main_stop", "done"}
          /\ fpos = image.len
          /\ bytes_sent = image.len
          /\ data.len = 0
          /\ Count("send") = Count("match")
          /\ CountSent("mmc write") = ChunksBelow(image.len)
          /\ Count("remove") = 1
          /\ Count("close") = 1
          /\ conn = "closed"
    /\ (pc = "failed" \/ err # "none") => ~success

C12_Witness ==
    /\ success
    /\ pc = "done"
    /\ CountSent("mmc write") = 2

(* C13: once a wait has timed out nothing more is done: no command is      *)
(* sent, chunk.bin is not written, and neither the block cursor nor        *)
(* bytes_sent moves.                                                       *)
C13_NothingAfterTimeout ==
    /\ [](err = "TimeoutError" =>
            /\ pc = "failed"
            /\ LastEvent.ev = "send"
            /\ LastEvent.cmd.op \in {"mw.b", "tftp", "mmc write"} =>
                  /\ bytes_sent + data.len = fpos
                  /\ block_start = base_addr \div mmc_block_size
                                    + BlocksOfChunks(ChunksBelow(bytes_sent)))
    /\ [][err = "TimeoutError" =>
              /\ trace' = trace
              /\ chunk_file' = chunk_file
              /\ block_start' = block_start
              /\ bytes_sent' = bytes_sent
              /\ err' = err
              /\ pc' = pc]_vars

\* a wait of the transfer loop timed out after a chunk had been written
C13_Witness ==
    /\ pc = "failed"
    /\ err = "TimeoutError"
    /\ CountSent("mmc write") >= 1
    /\ LastEvent.ev = "send"
    /\ LastEvent.cmd.op = "tftp"
    /\ chunk_file = data
    /\ bytes_sent = chunk_size_in_bytes

(* C14: when -t is missing, or names something that is not a directory,    *)
(* the program fails before the serial port is opened and before anything  *)
(* is written to it.                                                       *)
C14_BadRootFailsFirst ==
    (args.tftp # "AUTO" /\ args.tftp \notin ExistingDirs) =>
        /\ pc \in {"main", "failed"}
        /\ conn = "none"
        /\ trace = <<>>
        /\ tftp_thread = "none"
        /\ ~success
        /\ pc = "failed" => err \in {"TypeError", "Exception"}

C14_Witness ==
    /\ pc = "failed"
    /\ args.tftp = None
    /\ err = "TypeError"
    /\ conn = "none"

----------------------------------------------------------------------------
(* The commands of the environment, and the waits *)

\* the commands between the prompt and the loop that the arguments call for
EnvCmds ==
    (IF args.serverip # None
       THEN <<Cmd("env set", "serverip", args.serverip, <<>>, <<>>)>> ELSE <<>>)
    \o (IF args.ipaddr # None
          THEN <<Cmd("env set", "ipaddr", args.ipaddr, <<>>, <<>>)>> ELSE <<>>)
    \o <<Cmd("mmc dev", "", "", <<"1">>, <<"0">>)>>
\* every place where the main thread is inside a wait
AllWaits == WaitForSites \cup {"wait_any"}
\* what the wait at p returns on
Candidates(p) == IF p = "wait_any" THEN {uboot_propmt, autoboot_banner} ELSE {uboot_propmt}
IsSuffix(s, str) == Len(str) >= Len(s) /\ SubSeq(str, Len(str) - Len(s) + 1, Len(str)) = s
\* the commands and the matches of the session, in order
SendsAndMatches == SelectSeq(trace, LAMBDA e : e.ev \in {"send", "match"})
\* the blocks asked for by the first n mmc write commands
RECURSIVE BlocksWritten(_)
BlocksWritten(n) ==
    IF n = 0 THEN 0 ELSE BlocksWritten(n - 1) + HexValue(WriteArgs[n].cmd.y)

(* C16: after the prompt was reached, "env set serverip" is sent only when *)
(* --serverip was given, then "env set ipaddr" only when --ipaddr was      *)
(* given, then "mmc dev 1 0" once, each followed by a wait that matched    *)
(* the prompt before the next is sent; no mw.b, tftp, mmc write or write   *)
(* of chunk.bin comes before the last of these waits has matched.          *)
C16_EnvOrder ==
    LET t == SerialTrace
        n == Len(EnvCmds)
    IN  /\ \A k \in 1..n :
              /\ Len(t) >= 4 + 2 * k =>
                    t[4 + 2 * k].ev = "send" /\ t[4 + 2 * k].cmd = EnvCmds[k]
              /\ Len(t) >= 5 + 2 * k =>
                    t[5 + 2 * k].ev = "match" /\ t[5 + 2 * k].what = uboot_propmt
        /\ \A i \in 1..Len(t) :
              /\ (t[i].ev = "send" /\ t[i].cmd.op \in {"env set", "mmc dev"}) =>
                    \E k \in 1..n : i = 4 + 2 * k
              /\ (t[i].ev = "stage"
                  \/ (t[i].ev = "send" /\ t[i].cmd.op \in {"mw.b", "tftp", "mmc write"})) =>
                    i > 5 + 2 * n

C16_Witness ==
    /\ pc = "done"
    /\ args.serverip # None
    /\ args.ipaddr # None
    /\ CountSent("env set") = 2
    /\ CountSent("mmc dev") = 1
    /\ CountSent("mmc write") >= 1

(* C17: the block cursor is base address / block size until the first mmc  *)
(* write; it changes only in the step right after the prompt of an mmc     *)
(* write matched, and then grows by the block count of that command, which *)
(* is ceil(len(chunk) / block size); the block start of every mmc write is *)
(* base block + the block counts of the mmc writes before it.              *)
C17_BlockCursor ==
    /\ [](/\ CountSent("mmc write") = 0 => block_start = base_addr \div mmc_block_size
          /\ \A k \in 1..Len(WriteArgs) :
                HexValue(WriteArgs[k].cmd.x) =
                    base_addr \div mmc_block_size + BlocksWritten(k - 1))
    /\ [][block_start' # block_start =>
              /\ Len(trace) >= 2
              /\ IsMatch(Len(trace))
              /\ IsSend(Len(trace) - 1, "mmc write")
              /\ trace' = trace
              /\ HexValue(trace[Len(trace) - 1].cmd.y) = CeilDiv(data.len, mmc_block_size)
              /\ block_start' = block_start + HexValue(trace[Len(trace) - 1].cmd.y)
              /\ block_start' > block_start]_vars

C17_Witness ==
    /\ pc = "done"
    /\ Len(WriteArgs) = 3
    /\ HexValue(WriteArgs[3].cmd.x) = 2 * (chunk_size_in_bytes \div mmc_block_size)
    /\ block_start = CeilDiv(45 * MiB, mmc_block_size)

(* C18: a wait returns on the first byte after which one of its candidates *)
(* is in the bytes read since the wait began; it reads one byte at a time  *)
(* and leaves the bytes after that one unread; every wait starts with an   *)
(* empty buffer.                                                           *)
C18_FirstMatch ==
    /\ [](pc \in AllWaits => \A c \in Candidates(pc) : ~IsSubstr(c, rcv_str))
    /\ [][/\ rx' # rx =>
                \/ /\ pc \in AllWaits
                   /\ rx # <<>>
                   /\ rx' = Tail(rx)
                   /\ rcv_str' = Append(rcv_str, Head(rx))
                \/ /\ Len(rx') > Len(rx)
                   /\ SubSeq(rx', 1, Len(rx)) = rx
                   /\ rcv_str' = rcv_str
          /\ (pc \in AllWaits /\ pc' \notin AllWaits /\ pc' # "failed") =>
                /\ rx # <<>>
                /\ rx' = Tail(rx)
                /\ \E c \in Candidates(pc) : IsSuffix(c, rcv_str')
                /\ Len(trace') = Len(trace) + 1
                /\ trace'[Len(trace')].ev = "match"
          /\ (pc \notin AllWaits /\ pc' \in AllWaits) => rcv_str' = <<>>]_vars

\* the banner was matched with the prompt already received behind it
C18_Witness ==
    /\ pc = "send_cr2"
    /\ FirstMatch = autoboot_banner
    /\ rx = uboot_propmt

(* C20: commands and matched waits alternate, starting with a command: a   *)
(* command is sent only when the wait of the command before it has         *)
(* matched, and the main thread is inside a wait exactly while one command *)
(* is unanswered, unless that wait has timed out.                          *)
C20_SendWaitAlternate ==
    LET sm == SendsAndMatches
    IN  /\ \A i \in 1..Len(sm) : sm[i].ev = (IF i % 2 = 1 THEN "send" ELSE "match")
        /\ pc \in AllWaits => Len(sm) % 2 = 1
        /\ (pc \notin AllWaits /\ pc # "failed") => Len(sm) % 2 = 0
        /\ (pc = "failed" /\ Len(sm) % 2 = 1) => err = "TimeoutError"
        /\ (pc = "failed" /\ err = "TimeoutError") => Len(sm) % 2 = 1

C20_Witness ==
    /\ pc = "done"
    /\ Count("send") = Count("match")
    /\ Count("send") >= 9

----------------------------------------------------------------------------
(* C15: a wait that has not found its text is over, with a timeout error,  *)
(* once the timeout window of 20 seconds has passed, also when the device  *)
(* keeps sending bytes that never complete the text: no wait in progress   *)
(* has lasted longer than the window.                                      *)
C15_WaitEndsInWindow ==
    pc \in AllWaits => waited <= read_timeout

----------------------------------------------------------------------------
(* What the device holds *)

\* what memory and eMMC hold where nothing was loaded or written: no byte of an image
Garbage == 165
\* the byte at offset k from the load address after the loads r
RamByte(r, k) ==
    LET over == {i \in 1..Len(r) : k < r[i].len}
    IN  IF over = {} THEN Garbage
        ELSE ByteAt(r[CHOOSE i \in over : \A j \in over : j <= i], k)
\* the byte at offset k of the eMMC after the writes m
MmcByte(m, k) ==
    LET over == {i \in 1..Len(m) : k >= m[i].at /\ k < m[i].at + m[i].len}
    IN  IF over = {} THEN Garbage
        ELSE LET w == m[CHOOSE i \in over : \A j \in over : j <= i]
             IN  RamByte(w.ram, k - w.at)
\* the offsets at which the image or the eMMC may change from one value to
\* another: between two of them next to each other both are constant
Breaks ==
    {0} \cup UNION {{o, o + 1} : o \in DOMAIN image.bytes}
    \cup UNION {{mmc[i].at, mmc[i].at + mmc[i].len} : i \in 1..Len(mmc)}
    \cup UNION {UNION {{mmc[i].at + mmc[i].ram[j].len}
                       \cup UNION {{mmc[i].at + o, mmc[i].at + o + 1} :
                                   o \in DOMAIN mmc[i].ram[j].bytes} :
                       j \in 1..Len(mmc[i].ram)} :
                i \in 1..Len(mmc)}

(* C19: with a bootloader that carries out mw.b, tftp and mmc write as     *)
(* documented, after a session that reported success the eMMC holds the    *)
(* image: the byte at base address + k is byte k of the image for every k  *)
(* below the size of the image (checked at every offset where either may   *)
(* change value, which decides it for all offsets).                        *)
C19_StorageHoldsImage ==
    success =>
        \A k \in Breaks :
            (k >= 0 /\ k < image.len) => MmcByte(mmc, base_addr + k) = ByteAt(image, k)

\* a chunk of zeros after a chunk with data, the last one not a whole block
C19_Witness ==
    /\ pc = "done"
    /\ image = SparseTailImage
    /\ Len(mmc) = 2
    /\ RamByte(ram, 0) = 0
    /\ RamByte(ram, 511) = 0
    /\ MmcByte(mmc, 0) = 255
    /\ MmcByte(mmc, chunk_size_in_bytes) = 0

====
